---------------------------- MODULE Spec2Model ----------------------------
(***************************************************************************)
(* UNIX domain sockets of the library OS (LibOS/shim/src/net/unix.c) over  *)
(* the handle model of LibOS/shim/include/shim_handle.h.                   *)
(*                                                                         *)
(* Five specifications share the definitions below:                        *)
(*   Spec         threads calling create, bind, listen, accept, connect    *)
(*                and disconnect on shared socket handles;                 *)
(*   SpecBind     threads binding sockets to every kind of address buffer; *)
(*   SpecAddr     unaddr_to_sockname and fixup_sockaddr_un_path applied to *)
(*                every address buffer within the bounds;                  *)
(*   SpecIO       send and recv on a connected pair with scatter/gather    *)
(*                buffer lists;                                            *)
(*   SpecIOFlags  send and recv with and without the nonblocking request,  *)
(*                on sockets with and without a platform stream.           *)
(***************************************************************************)
EXTENDS Integers, Sequences, FiniteSets, TLC

(***************************************************************************)
(* Bounds of the model.                                                    *)
(***************************************************************************)
\* number of handle slots (struct shim_handle objects that can be alive)
MaxHandles == 3
\* number of platform (PAL) stream objects that can be created
MaxPal == 3
\* largest value of an address byte (0 is the null byte)
MaxByte == 2
\* size of sun_path (108 in struct sockaddr_un), scaled down
SunPathSize == 2
\* largest number of bytes one platform stream direction ever carries
MaxSent == 2
\* largest length of one I/O buffer and of a buffer list in SpecIO
MaxBufLen == 2
MaxIov == 2
\* number of descriptors of the descriptor table
MaxFd == 2
\* largest reference count of a handle
MaxRef == 3
\* how often one handle slot is destroyed and handed out again
MaxDestroyed == 1

(***************************************************************************)
(* Program constants.                                                      *)
(***************************************************************************)
AF_UNIX == "AF_UNIX"
AF_INET == "AF_INET"
AF_UNSPEC == "AF_UNSPEC"
\* offsetof(struct sockaddr_un, sun_path): the two bytes of sun_family
SunPathOffset == 2
\* how much larger struct sockaddr_storage is than struct sockaddr_un
\* (static_assert: sizeof(struct sockaddr_un) < sizeof(sock->local_addr))
StorageSlack == 2
NULL == 0
NoHandle == 0
NoThread == 0
NoAddr == [family |-> AF_UNSPEC, path |-> <<>>]

SockaddrUnSize == SunPathOffset + SunPathSize
StorageSize == SockaddrUnSize + StorageSlack
StoragePathSize == StorageSize - SunPathOffset

SOCK_STREAM == "SOCK_STREAM"
SOCK_DGRAM == "SOCK_DGRAM"
O_NONBLOCK == "O_NONBLOCK"
PAL_OPTION_NONBLOCK == "PAL_OPTION_NONBLOCK"
URI_PREFIX_PIPE_SRV == "pipe.srv:"
URI_PREFIX_PIPE == "pipe:"
sock_unix_ops == "sock_unix_ops"

SOCK_NEW == "SOCK_NEW"
SOCK_BOUND == "SOCK_BOUND"
SOCK_CONNECTED == "SOCK_CONNECTED"
SOCK_LISTENING == "SOCK_LISTENING"

OK == "OK"

\* the threads calling into the socket layer
Threads == {1, 2}
Handles == 1..MaxHandles
PalIds == 1..MaxPal
Fds == 0..(MaxFd - 1)
Bytes == 0..MaxByte
DataBytes == 1..MaxByte

Min(a, b) == IF a < b THEN a ELSE b

RECURSIVE Zeros(_)
Zeros(n) == IF n = 0 THEN <<>> ELSE <<0>> \o Zeros(n - 1)

RECURSIVE SeqsUpTo(_, _)
\* all sequences over S of length at most n
SeqsUpTo(S, n) ==
  IF n = 0 THEN {<<>>}
  ELSE LET shorter == SeqsUpTo(S, n - 1)
       IN shorter \cup {Append(s, x) : s \in {q \in shorter : Len(q) = n - 1}, x \in S}

(***************************************************************************)
(* Address buffers.  A caller's buffer is its sun_family and the bytes     *)
(* that follow it; its length addrlen counts both.                         *)
(***************************************************************************)
AddrLen(a) == SunPathOffset + Len(a.path)

AddrBuf(family, path) == [family |-> family, path |-> path]

\* strnlen(s, maxlen): the number of bytes before the first null, at most maxlen
strnlen(s, maxlen) ==
  LET nulls == {i \in 1..maxlen : s[i] = 0}
  IN IF nulls = {} THEN maxlen ELSE (CHOOSE i \in nulls : \A j \in nulls : i <= j) - 1

RECURSIVE SHA256(_)
\* lib_SHA256Init/Update/Final: a digest, modelled as an injective numeral of the
\* hashed bytes (no two byte strings within the bounds share a digest)
SHA256(bytes) ==
  IF bytes = <<>> THEN 0
  ELSE (bytes[1] + 1) + (MaxByte + 2) * SHA256(Tail(bytes))

\* BYTES2HEXSTR: the printable name of a digest
BYTES2HEXSTR(hash) == <<"hex", hash>>

\* the bytes unaddr_to_sockname hashes, given the clamped address length
HashedBytesMutNoStrnlen(path, pathlen) == SubSeq(path, 1, pathlen)
HashedBytesMutAlwaysStrnlen(path, pathlen) == SubSeq(path, 1, strnlen(path, pathlen))
HashedBytes(path, pathlen) ==
  IF path[1] # 0 THEN SubSeq(path, 1, strnlen(path, pathlen))
  ELSE SubSeq(path, 1, pathlen)

unaddr_to_sockname(a) ==
  LET addrlen == IF AddrLen(a) > SockaddrUnSize THEN SockaddrUnSize ELSE AddrLen(a)
  IN IF addrlen < SunPathOffset + 1 THEN [ret |-> "EINVAL", sock_name |-> <<>>]
     ELSE IF a.family # AF_UNIX THEN [ret |-> "EAFNOSUPPORT", sock_name |-> <<>>]
     ELSE LET pathlen == addrlen - SunPathOffset
          IN [ret |-> OK,
              sock_name |-> BYTES2HEXSTR(SHA256(HashedBytes(a.path, pathlen)))]

\* memcpy(&ss, addr, len): the first len bytes of the buffer over the storage
CopyAddr(ss, a, len) ==
  [family |-> IF len >= SunPathOffset THEN a.family ELSE ss.family,
   path |-> [i \in 1..StoragePathSize |->
               IF i <= len - SunPathOffset THEN a.path[i] ELSE ss.path[i]]]

fixup_sockaddr_un_path_mut(ss, addrlen) == [addr |-> ss, addrlen |-> addrlen]

\* fixup_sockaddr_un_path(ss_addr, addrlen): the storage and length it leaves
fixup_sockaddr_un_path(ss, addrlen) ==
  LET pathlen0 == addrlen - SunPathOffset
  IN IF ss.path[1] = 0 THEN [addr |-> ss, addrlen |-> addrlen]
     ELSE LET pathlen == strnlen(ss.path, pathlen0)
          IN [addr |-> [family |-> ss.family,
                        path |-> [i \in 1..StoragePathSize |->
                                    IF i > pathlen THEN 0 ELSE ss.path[i]]],
              addrlen |-> SunPathOffset + pathlen + 1]

\* a zeroed struct sockaddr_storage
ZeroStorage == [family |-> AF_UNSPEC, path |-> [i \in 1..StoragePathSize |-> 0]]

\* the address bind and connect record: copy MIN(addrlen, sizeof(sockaddr_un))
\* bytes of the caller's buffer, then fix the path up
RecordAddr(ss, a) ==
  LET len == Min(AddrLen(a), SockaddrUnSize)
  IN fixup_sockaddr_un_path(CopyAddr(ss, a, len), len)

(***************************************************************************)
(* State.                                                                  *)
(***************************************************************************)
VARIABLES
  handles,           \* struct shim_handle of every slot: ref_count, flags
  sock,              \* struct shim_sock_handle of every slot (handle->info.sock)
  pal,               \* the platform's stream objects, by PAL_HANDLE
  threads,           \* every thread's position in the call it makes, and its locals
  epoll_interrupts,  \* how often interrupt_epolls(handle) was called, per handle
  bound_as,          \* the caller's address buffer of each handle's successful bind
  io_log,            \* per PAL_HANDLE: bytes send reported accepted, bytes recv delivered
  addr_in,           \* SpecAddr: the pair of address buffers under test
  addr_out,          \* SpecAddr: what the address functions returned for them
  last,              \* the most recent call that returned: arguments, what it saw, result
  handle_map,        \* the descriptor table: the handle of every descriptor, or none
  thread_refs,       \* how many references to each handle each thread holds
  destroyed          \* how often each handle slot's object has been destroyed

vars == <<handles, sock, pal, threads, epoll_interrupts, bound_as, io_log,
          addr_in, addr_out, last, handle_map, thread_refs, destroyed>>

\* the descriptor table and the bookkeeping of references
fdvars == <<handle_map, thread_refs, destroyed>>

\* a slot no handle lives in (memory that get_new_handle hands out zeroed)
FreeHandle == [ref_count |-> 0, flags |-> {}]

FreeSock ==
  [lock |-> NoThread, lock_created |-> FALSE, recv_lock_created |-> FALSE,
   ops |-> "none", pal_handle |-> NULL, domain |-> AF_UNSPEC, type |-> "none",
   protocol |-> 0, state |-> SOCK_NEW,
   remote_addr |-> ZeroStorage, remote_addrlen |-> 0,
   local_addr |-> ZeroStorage, local_addrlen |-> 0]

\* a PAL_HANDLE value no stream object has yet
FreePalObj ==
  [kind |-> "free", name |-> <<>>, peer |-> NULL, nonblock |-> FALSE, closed |-> 0,
   backlog |-> <<>>, buf |-> <<>>, nwritten |-> 0]

IdleThread ==
  [pc |-> "idle", op |-> "none", hdl |-> NoHandle, addr |-> NoAddr, nb |-> FALSE,
   name |-> <<>>, options |-> {}, pal |-> NULL, client |-> NoHandle, cpal |-> NULL,
   iov |-> <<>>, niov |-> 0, buf |-> <<>>, size |-> 0, backing |-> FALSE, st |-> "none",
   ret |-> "none", out |-> 0, palcall |-> FALSE, palsize |-> 0, wrote |-> {},
   locks |-> <<>>, type |-> "none", protocol |-> 0]

\* an empty descriptor table, no thread holding a reference
InitFd ==
  /\ handle_map = [fd \in Fds |-> NoHandle]
  /\ thread_refs = [t \in Threads |-> [h \in Handles |-> 0]]
  /\ destroyed = [h \in Handles |-> 0]

InitMain ==
  /\ handles = [h \in Handles |-> FreeHandle]
  /\ sock = [h \in Handles |-> FreeSock]
  /\ pal = [p \in PalIds |-> FreePalObj]
  /\ threads = [t \in Threads |-> IdleThread]
  /\ epoll_interrupts = [h \in Handles |-> 0]
  /\ bound_as = [h \in Handles |-> NoAddr]
  /\ io_log = [p \in PalIds |-> [accepted |-> <<>>, delivered |-> <<>>]]
  /\ InitFd

Init ==
  /\ InitMain
  /\ addr_in = <<NoAddr, NoAddr>>
  /\ addr_out = [kind |-> "none"]
  /\ last = IdleThread

(***************************************************************************)
(* The platform (PAL): named byte streams.  Every operator gives the set   *)
(* of outcomes the call can have: its status and the platform state after. *)
(***************************************************************************)
FreePal == {p \in PalIds : pal[p].kind = "free"}
NewPal == CHOOSE p \in FreePal : \A q \in FreePal : p <= q

\* the open server streams of a name
Servers(name) ==
  {p \in PalIds : pal[p].kind = "srv" /\ pal[p].name = name /\ pal[p].closed = 0}

\* the fixed translation of platform errors to errno values
pal_to_unix_errno(e) ==
  CASE e = "PAL_ERROR_NOMEM" -> "ENOMEM"
    [] e = "PAL_ERROR_TRYAGAIN" -> "EAGAIN"
    [] e = "PAL_ERROR_CONNFAILED" -> "ECONNRESET"
    [] e = "PAL_ERROR_STREAMEXIST" -> "EEXIST"
    [] e = "PAL_ERROR_NOTSUPPORT" -> "EOPNOTSUPP"
    [] e = "PAL_ERROR_TOOLONG" -> "ENAMETOOLONG"
    [] OTHER -> "EACCES"

PalFail(e) == [ret |-> e, handle |-> NULL, pal |-> pal]

\* DkStreamOpen("pipe.srv:<name>", ..., options): create a listening stream
DkStreamOpenSrv(name, options) ==
  IF Servers(name) # {} THEN {PalFail("PAL_ERROR_STREAMEXIST")}
  ELSE {PalFail("PAL_ERROR_NOMEM")} \cup
       (IF FreePal = {} THEN {}
        ELSE {[ret |-> OK, handle |-> NewPal,
               pal |-> [pal EXCEPT ![NewPal] =
                          [FreePalObj EXCEPT !.kind = "srv", !.name = name,
                             !.nonblock = (PAL_OPTION_NONBLOCK \in options)]]]})

\* DkStreamOpen("pipe:<name>", ..., options): connect to the listening stream
DkStreamOpenCli(name, options) ==
  IF Servers(name) = {} THEN {PalFail("PAL_ERROR_CONNFAILED")}
  ELSE {PalFail("PAL_ERROR_NOMEM")} \cup
       (IF FreePal = {} THEN {}
        ELSE LET srv == CHOOSE p \in Servers(name) : TRUE
             IN {[ret |-> OK, handle |-> NewPal,
                  pal |-> [pal EXCEPT
                             ![NewPal] = [FreePalObj EXCEPT !.kind = "cli",
                                            !.nonblock = (PAL_OPTION_NONBLOCK \in options)],
                             ![srv].backlog = Append(@, NewPal)]]})

\* DkStreamWaitForClient(handle, &client, options): the outcomes that do not block
DkStreamWaitForClient(p, options) ==
  IF pal[p].kind # "srv" THEN {PalFail("PAL_ERROR_NOTSUPPORT")}
  ELSE IF pal[p].backlog = <<>>
       THEN (IF PAL_OPTION_NONBLOCK \in options \/ pal[p].nonblock
             THEN {PalFail("PAL_ERROR_TRYAGAIN")} ELSE {})
  ELSE IF FreePal = {} THEN {PalFail("PAL_ERROR_NOMEM")}
  ELSE LET c == Head(pal[p].backlog)
       IN {[ret |-> OK, handle |-> NewPal,
            pal |-> [pal EXCEPT
                       ![NewPal] = [FreePalObj EXCEPT !.kind = "acc", !.peer = c,
                                      !.nonblock = (PAL_OPTION_NONBLOCK \in options)],
                       ![c].peer = NewPal,
                       ![p].backlog = Tail(@)]]}

\* DkObjectClose(handle), applied to a platform state
DkObjectClose(ps, p) == [ps EXCEPT ![p].closed = @ + 1]

\* DkStreamWrite(handle, 0, &size, buf): the outcomes that do not block; a stream
\* takes a prefix of buf, at least one byte of a non-empty buf
DkStreamWrite(p, buf) ==
  IF p = NULL \/ pal[p].kind \notin {"cli", "acc"}
  THEN {[ret |-> "PAL_ERROR_NOTSUPPORT", size |-> 0, pal |-> pal]}
  ELSE IF buf = <<>> THEN {[ret |-> OK, size |-> 0, pal |-> pal]}
  ELSE LET room == MaxSent - pal[p].nwritten
       IN IF room = 0
          THEN (IF pal[p].nonblock
                THEN {[ret |-> "PAL_ERROR_TRYAGAIN", size |-> 0, pal |-> pal]} ELSE {})
          ELSE {[ret |-> OK, size |-> k,
                 pal |-> [pal EXCEPT ![p].buf = @ \o SubSeq(buf, 1, k),
                                     ![p].nwritten = @ + k]]
                  : k \in 1..Min(Len(buf), room)}

\* DkStreamRead(handle, 0, &size, buf): the outcomes that do not block; a stream
\* gives the next bytes its peer wrote, in order, at least one when size > 0
DkStreamRead(p, size) ==
  IF p = NULL \/ pal[p].kind \notin {"cli", "acc"}
  THEN {[ret |-> "PAL_ERROR_NOTSUPPORT", data |-> <<>>, pal |-> pal]}
  ELSE IF size = 0 THEN {[ret |-> OK, data |-> <<>>, pal |-> pal]}
  ELSE LET q == pal[p].peer
           avail == IF q = NULL THEN <<>> ELSE pal[q].buf
       IN IF avail = <<>>
          THEN (IF pal[p].nonblock
                THEN {[ret |-> "PAL_ERROR_TRYAGAIN", data |-> <<>>, pal |-> pal]} ELSE {})
          ELSE {[ret |-> OK, data |-> SubSeq(avail, 1, k),
                 pal |-> [pal EXCEPT ![q].buf = SubSeq(avail, k + 1, Len(avail))]]
                  : k \in 1..Min(size, Len(avail))}


(***************************************************************************)
(* Handles.                                                                *)
(***************************************************************************)
FreeSlots == {h \in Handles : handles[h].ref_count = 0}

\* get_new_handle(): a zeroed handle with one reference, or NULL (NoHandle)
get_new_handle == IF FreeSlots = {} THEN NoHandle
                  ELSE CHOOSE h \in FreeSlots : \A g \in FreeSlots : h <= g

\* put_handle(hdl) on the only reference of a socket handle that no table holds:
\* the teardown closes the socket's platform stream, if it has one
put_handle(ps, s) == IF s.pal_handle # NULL THEN DkObjectClose(ps, s.pal_handle) ELSE ps

\* interrupt_epolls(handle): the epoll interrupt hook
interrupt_epolls(ei, h) == [ei EXCEPT ![h] = @ + 1]

\* a handle a thread may name in a call: alive, and not a child that accept is
\* still constructing
Usable(h) ==
  /\ handles[h].ref_count > 0
  /\ \A t \in Threads : ~(threads[t].pc = "accept_copy" /\ threads[t].client = h)

Idle(t) == threads[t].pc = "idle"

\* nobody is inside the lock(&hdl->lock) ... unlock(&hdl->lock) of
\* set_handle_nonblocking on handle h
HandleLockFree(h) ==
  \A t \in Threads : ~(threads[t].pc = "set_nonblocking_flags" /\ threads[t].hdl = h)

\* the thread's call returns ret: the thread is ready for its next call, and
\* `last` keeps what the call was given, what it saw and what it returned
Finish(t, rec, ret) ==
  /\ threads' = [threads EXCEPT ![t] = IdleThread]
  /\ last' = [rec EXCEPT !.pc = "done", !.ret = ret, !.name = <<>>, !.options = {},
                         !.buf = <<>>, !.backing = FALSE,
                         !.iov = <<>>, !.niov = Len(rec.iov)]

\* the thread goes on inside its call, with locals rec
Goto(t, rec) ==
  /\ threads' = [threads EXCEPT ![t] = rec]
  /\ UNCHANGED last

Call(op, h) == [IdleThread EXCEPT !.op = op, !.hdl = h]

\* lock(&...) and unlock(&...) of a handle's sock->lock ("sock") or of its
\* handle->lock ("handle"), as entries of the list of lock operations a call made
Lock(kind, h) == <<"lock", kind, h>>
Unlock(kind, h) == <<"unlock", kind, h>>

\* the caller in the socket layer takes sock->lock before it looks at the state
\* and calls the backend, and releases it when the backend has returned
CallLocked(op, h) == [Call(op, h) EXCEPT !.locks = <<Lock("sock", h)>>]
CallerUnlocks(rec) == [rec EXCEPT !.locks = Append(@, Unlock("sock", rec.hdl))]

\* handle->flags & O_NONBLOCK ? PAL_OPTION_NONBLOCK : 0
pal_options(flags) == IF O_NONBLOCK \in flags THEN {PAL_OPTION_NONBLOCK} ELSE {}

(***************************************************************************)
(* create, under the socket() call that allocates the handle.              *)
(***************************************************************************)
create_ret_mut(type, protocol) ==
  IF protocol # 0 THEN "EPROTONOSUPPORT"
  ELSE OK

create_ret(type, protocol) ==
  IF type = SOCK_DGRAM THEN "EPROTONOSUPPORT"
  ELSE IF protocol # 0 THEN "EPROTONOSUPPORT"
  ELSE OK

create(t, type, protocol, nonblock) ==
  /\ Idle(t)
  /\ LET h == get_new_handle
         rec == [Call("create", h) EXCEPT !.nb = nonblock, !.type = type,
                                          !.protocol = protocol]
     IN IF h = NoHandle
        THEN /\ Finish(t, rec, "ENOMEM")
             /\ UNCHANGED <<handles, sock>>
        ELSE IF create_ret(type, protocol) # OK
        THEN /\ Finish(t, [rec EXCEPT !.hdl = NoHandle], create_ret(type, protocol))
             /\ UNCHANGED <<handles, sock>>
        ELSE /\ handles' = [handles EXCEPT ![h] =
                   [ref_count |-> 1, flags |-> IF nonblock THEN {O_NONBLOCK} ELSE {}]]
             /\ sock' = [sock EXCEPT ![h] =
                   [FreeSock EXCEPT !.lock_created = TRUE, !.recv_lock_created = TRUE,
                      !.ops = sock_unix_ops, !.domain = AF_UNIX, !.type = type,
                      !.protocol = protocol, !.state = SOCK_NEW, !.pal_handle = NULL]]
             /\ Finish(t, rec, OK)
  /\ UNCHANGED <<pal, epoll_interrupts, bound_as, io_log, addr_in, addr_out, fdvars>>

(***************************************************************************)
(* bind.  The caller holds sock->lock from before the call until after it   *)
(* and moves the socket from SOCK_NEW to SOCK_BOUND when bind returns 0.    *)
(***************************************************************************)
\* lock(&handle->lock); options = ...; unlock(&handle->lock);
bind_flags_locking_mut(h) == <<Lock("handle", h)>>
bind_flags_locking(h) == <<Lock("handle", h), Unlock("handle", h)>>

\* the errno bind returns for a failed DkStreamOpen
bind_errno_mut(e) == pal_to_unix_errno(e)
bind_errno(e) == IF e = "PAL_ERROR_STREAMEXIST" THEN "EADDRINUSE" ELSE pal_to_unix_errno(e)

bind_entry(t, h, a) ==
  /\ Idle(t) /\ Usable(h) /\ sock[h].lock = NoThread
  /\ LET rec == [CallLocked("bind", h) EXCEPT !.addr = a, !.st = sock[h].state]
         r == unaddr_to_sockname(a)
     IN IF sock[h].state # SOCK_NEW
        THEN Finish(t, CallerUnlocks(rec), "EINVAL") /\ UNCHANGED sock
        ELSE IF r.ret # OK
        THEN Finish(t, CallerUnlocks(rec), r.ret) /\ UNCHANGED sock
        ELSE /\ HandleLockFree(h)
             /\ Goto(t, [rec EXCEPT !.pc = "bind_open", !.name = r.sock_name,
                                     !.options = pal_options(handles[h].flags),
                                     !.locks = @ \o bind_flags_locking(h)])
             /\ sock' = [sock EXCEPT ![h].lock = t]
  /\ UNCHANGED <<handles, pal, epoll_interrupts, bound_as, io_log, addr_in, addr_out, fdvars>>

\* what bind calls the hook with once the stream is stored and the address recorded
bind_interrupt_mut(ei, h) == ei
bind_interrupt(ei, h) == interrupt_epolls(ei, h)

bind_open(t) ==
  /\ threads[t].pc = "bind_open"
  /\ LET h == threads[t].hdl
         a == threads[t].addr
     IN \E r \in DkStreamOpenSrv(threads[t].name, threads[t].options) :
          IF r.ret # OK
          THEN /\ Finish(t, CallerUnlocks(threads[t]), bind_errno(r.ret))
               /\ sock' = [sock EXCEPT ![h].lock = NoThread]
               /\ UNCHANGED <<pal, epoll_interrupts, bound_as>>
          ELSE LET rec == RecordAddr(sock[h].local_addr, a)
               IN /\ pal' = r.pal
                  /\ sock' = [sock EXCEPT ![h].pal_handle = r.handle,
                                          ![h].local_addr = rec.addr,
                                          ![h].local_addrlen = rec.addrlen,
                                          ![h].state = SOCK_BOUND,
                                          ![h].lock = NoThread]
                  /\ epoll_interrupts' = bind_interrupt(epoll_interrupts, h)
                  /\ bound_as' = [bound_as EXCEPT ![h] = a]
                  /\ Finish(t, CallerUnlocks(threads[t]), OK)
  /\ UNCHANGED <<handles, io_log, addr_in, addr_out, fdvars>>

(***************************************************************************)
(* listen.  The caller moves a bound socket to SOCK_LISTENING.             *)
(***************************************************************************)
listen_ret(type) == IF type # SOCK_STREAM THEN "EOPNOTSUPP" ELSE OK

\* the states listen is called in
\* (assert(state == SOCK_BOUND || state == SOCK_LISTENING))
listen_state_ok_mut(st) == TRUE
listen_state_ok(st) == st \in {SOCK_BOUND, SOCK_LISTENING}

listen(t, h) ==
  /\ Idle(t) /\ Usable(h) /\ sock[h].lock = NoThread
  /\ LET rec == CallerUnlocks([CallLocked("listen", h) EXCEPT !.st = sock[h].state])
     IN IF ~listen_state_ok(sock[h].state)
        THEN Finish(t, rec, "EINVAL") /\ UNCHANGED sock
        ELSE IF listen_ret(sock[h].type) # OK
        THEN Finish(t, rec, listen_ret(sock[h].type)) /\ UNCHANGED sock
        ELSE /\ sock' = [sock EXCEPT ![h].state = SOCK_LISTENING]
             /\ Finish(t, rec, OK)
  /\ UNCHANGED <<handles, pal, epoll_interrupts, bound_as, io_log, addr_in, addr_out, fdvars>>

(***************************************************************************)
(* connect.  The caller holds sock->lock around the call and moves the     *)
(* socket to SOCK_CONNECTED when connect returns 0.                        *)
(***************************************************************************)
\* the states connect goes on from (sock->state != SOCK_NEW returns -EINVAL)
connect_state_ok_mut_bound(st) == st \in {SOCK_NEW, SOCK_BOUND}
connect_state_ok_mut_any(st) == st # SOCK_CONNECTED
connect_state_ok(st) == st = SOCK_NEW

\* lock(&handle->lock); options = ...; unlock(&handle->lock);
connect_flags_locking(h) == <<Lock("handle", h), Unlock("handle", h)>>

connect_entry(t, h, a) ==
  /\ Idle(t) /\ Usable(h) /\ sock[h].lock = NoThread
  /\ LET rec == [CallLocked("connect", h) EXCEPT !.addr = a, !.st = sock[h].state]
         r == unaddr_to_sockname(a)
     IN IF ~connect_state_ok(sock[h].state)
        THEN Finish(t, CallerUnlocks(rec), "EINVAL") /\ UNCHANGED sock
        ELSE IF r.ret # OK
        THEN Finish(t, CallerUnlocks(rec), r.ret) /\ UNCHANGED sock
        ELSE /\ HandleLockFree(h)
             /\ Goto(t, [rec EXCEPT !.pc = "connect_open", !.name = r.sock_name,
                                     !.options = pal_options(handles[h].flags),
                                     !.locks = @ \o connect_flags_locking(h)])
             /\ sock' = [sock EXCEPT ![h].lock = t]
  /\ UNCHANGED <<handles, pal, epoll_interrupts, bound_as, io_log, addr_in, addr_out, fdvars>>

connect_interrupt(ei, h) == interrupt_epolls(ei, h)

\* the errno connect returns for a failed DkStreamOpen
connect_errno_mut(e) == pal_to_unix_errno(e)
connect_errno(e) == IF e = "PAL_ERROR_CONNFAILED" THEN "ENOENT" ELSE pal_to_unix_errno(e)

connect_open(t) ==
  /\ threads[t].pc = "connect_open"
  /\ LET h == threads[t].hdl
         a == threads[t].addr
     IN \E r \in DkStreamOpenCli(threads[t].name, threads[t].options) :
          IF r.ret # OK
          THEN /\ Finish(t, CallerUnlocks(threads[t]), connect_errno(r.ret))
               /\ sock' = [sock EXCEPT ![h].lock = NoThread]
               /\ UNCHANGED <<pal, epoll_interrupts>>
          ELSE LET rec == RecordAddr(sock[h].remote_addr, a)
                   unbound == sock[h].state # SOCK_BOUND
               IN /\ pal' = r.pal
                  /\ sock' = [sock EXCEPT
                       ![h].pal_handle = r.handle,
                       ![h].remote_addr = rec.addr,
                       ![h].remote_addrlen = rec.addrlen,
                       ![h].local_addr = IF unbound THEN [@ EXCEPT !.family = AF_UNIX] ELSE @,
                       ![h].local_addrlen = IF unbound THEN SunPathOffset ELSE @,
                       ![h].state = SOCK_CONNECTED,
                       ![h].lock = NoThread]
                  /\ epoll_interrupts' = connect_interrupt(epoll_interrupts, h)
                  /\ Finish(t, CallerUnlocks(threads[t]), OK)
  /\ UNCHANGED <<handles, bound_as, io_log, addr_in, addr_out, fdvars>>

(***************************************************************************)
(* disconnect.  The caller would move the socket back to SOCK_NEW if the   *)
(* backend ever returned 0.                                                *)
(***************************************************************************)
disconnect_ret_mut == OK
disconnect_ret == "EINVAL"

disconnect(t, h) ==
  /\ Idle(t) /\ Usable(h) /\ sock[h].lock = NoThread
  /\ LET rec == CallerUnlocks([CallLocked("disconnect", h) EXCEPT !.st = sock[h].state])
     IN /\ Finish(t, rec, disconnect_ret)
        /\ sock' = IF disconnect_ret = OK
                   THEN [sock EXCEPT ![h].state = SOCK_NEW] ELSE sock
  /\ UNCHANGED <<handles, pal, epoll_interrupts, bound_as, io_log, addr_in, addr_out, fdvars>>

(***************************************************************************)
(* accept.  The caller has checked under sock->lock that the socket is     *)
(* listening before it calls accept without the lock.                      *)
(***************************************************************************)
accept_entry(t, h, is_nonblocking) ==
  /\ Idle(t) /\ Usable(h) /\ sock[h].lock = NoThread
  /\ LET rec == CallerUnlocks([CallLocked("accept", h) EXCEPT !.nb = is_nonblocking,
                                                               !.st = sock[h].state])
     IN IF sock[h].state # SOCK_LISTENING
        THEN Finish(t, rec, "EINVAL")
        ELSE Goto(t, [rec EXCEPT !.pc = "accept_wait", !.pal = sock[h].pal_handle, !.options = IF is_nonblocking THEN {PAL_OPTION_NONBLOCK} ELSE {}])
  /\ UNCHANGED <<handles, sock, pal, epoll_interrupts, bound_as, io_log, addr_in, addr_out, fdvars>>

\* client_handle->flags
accept_client_flags(is_nonblocking) == IF is_nonblocking THEN {O_NONBLOCK} ELSE {}

\* the child's socket fields once both locks exist and the remote address is set
accept_client_sock(parent, client_pal_handle) ==
  [FreeSock EXCEPT !.pal_handle = client_pal_handle, !.state = SOCK_CONNECTED,
     !.ops = parent.ops, !.domain = parent.domain, !.type = parent.type,
     !.protocol = parent.protocol,
     !.lock_created = TRUE, !.recv_lock_created = TRUE,
     !.remote_addr = [@ EXCEPT !.family = AF_UNIX], !.remote_addrlen = SunPathOffset]

\* the platform state after accept gave up because get_new_handle returned NULL
accept_no_handle_mut(ps, client_pal_handle) == ps
accept_no_handle(ps, client_pal_handle) == DkObjectClose(ps, client_pal_handle)

\* the platform state after accept gave up because a lock could not be created
accept_no_lock(ps, parent, client_pal_handle) ==
  put_handle(ps, [accept_client_sock(parent, client_pal_handle)
                    EXCEPT !.lock_created = FALSE, !.recv_lock_created = FALSE])

accept_wait(t) ==
  /\ threads[t].pc = "accept_wait"
  /\ LET h == threads[t].hdl
     IN \E r \in DkStreamWaitForClient(threads[t].pal, threads[t].options) :
          IF r.ret # OK
          THEN /\ Finish(t, threads[t], pal_to_unix_errno(r.ret))
               /\ UNCHANGED <<handles, sock, pal>>
          ELSE \E fail \in {"none", "handle", "lock", "recv_lock"} :
                 LET c == get_new_handle
                     rec == [threads[t] EXCEPT !.cpal = r.handle]
                 IN /\ (fail # "handle") => (c # NoHandle)
                    /\ IF fail = "handle"
                       THEN /\ pal' = accept_no_handle(r.pal, r.handle)
                            /\ Finish(t, rec, "ENOMEM")
                            /\ UNCHANGED <<handles, sock>>
                       ELSE IF fail \in {"lock", "recv_lock"}
                       THEN /\ pal' = accept_no_lock(r.pal, sock[h], r.handle)
                            /\ Finish(t, rec, "ENOMEM")
                            /\ UNCHANGED <<handles, sock>>
                       ELSE /\ pal' = r.pal
                            /\ handles' = [handles EXCEPT ![c] =
                                 [ref_count |-> 1,
                                  flags |-> accept_client_flags(threads[t].nb)]]
                            /\ sock' = [sock EXCEPT ![c] =
                                 accept_client_sock(sock[h], r.handle)]
                            /\ Goto(t, [rec EXCEPT !.pc = "accept_copy", !.client = c])
  /\ UNCHANGED <<epoll_interrupts, bound_as, io_log, addr_in, addr_out, fdvars>>

\* the child once the parent's local address is copied under the parent's sock->lock
accept_copy_local_mut(child, parent) ==
  [child EXCEPT !.local_addrlen = parent.remote_addrlen,
                !.local_addr = CopyAddr(@, parent.remote_addr, parent.remote_addrlen)]
accept_copy_local(child, parent) ==
  [child EXCEPT !.local_addrlen = parent.local_addrlen,
                !.local_addr = CopyAddr(@, parent.local_addr, parent.local_addrlen)]

\* lock(&handle->info.sock.lock); ...; unlock(&handle->info.sock.lock);
accept_copy_locking(h) == <<Lock("sock", h), Unlock("sock", h)>>

accept_copy(t) ==
  /\ threads[t].pc = "accept_copy"
  /\ LET h == threads[t].hdl
         c == threads[t].client
     IN /\ sock[h].lock = NoThread
        /\ sock' = [sock EXCEPT ![c] = accept_copy_local(@, sock[h])]
        /\ Finish(t, [threads[t] EXCEPT !.out = c, !.locks = @ \o accept_copy_locking(h)], OK)
  /\ UNCHANGED <<handles, pal, epoll_interrupts, bound_as, io_log, addr_in, addr_out, fdvars>>

(***************************************************************************)
(* send and recv.  A buffer list (iov) is a sequence of buffers.           *)
(***************************************************************************)
RECURSIVE Concat(_)
Concat(bufs) == IF bufs = <<>> THEN <<>> ELSE Head(bufs) \o Concat(Tail(bufs))

RECURSIVE Sum(_)
Sum(lens) == IF lens = <<>> THEN 0 ELSE Head(lens) + Sum(Tail(lens))

\* the bytes send hands to DkStreamWrite: iov[0] itself, or the backing buffer
\* the buffers are copied into one after the other
send_buf(iov) == IF Len(iov) = 1 THEN iov[1] ELSE Concat(iov)

\* if (!pal_handle) return -ENOTCONN;
send_has_stream_mut(pal_handle) == TRUE
send_has_stream(pal_handle) == pal_handle # NULL

send_entry(t, h, iov) ==
  /\ Idle(t) /\ Usable(h)
  /\ LET p == sock[h].pal_handle
         rec == [Call("send", h) EXCEPT !.pal = p, !.iov = iov, !.st = sock[h].state,
                                       !.size = Len(Concat(iov))]
     IN IF ~send_has_stream(p)
        THEN Finish(t, rec, "ENOTCONN")
        ELSE \E malloc_fails \in BOOLEAN :
               /\ malloc_fails => Len(iov) # 1
               /\ IF malloc_fails
                  THEN Finish(t, rec, "ENOMEM")
                  ELSE Goto(t, [rec EXCEPT !.pc = "send_write", !.buf = send_buf(iov),
                                           !.size = Len(send_buf(iov)),
                                           !.backing = (Len(iov) # 1)])
  /\ UNCHANGED <<handles, sock, pal, epoll_interrupts, bound_as, io_log, addr_in, addr_out, fdvars>>

\* *size_out = size: size is what DkStreamWrite left in it, the count it took
send_size_out_mut(requested, written) == requested
send_size_out(requested, written) == written

send_write(t) ==
  /\ threads[t].pc = "send_write"
  /\ LET p == threads[t].pal
         rec == [threads[t] EXCEPT !.palcall = TRUE, !.buf = <<>>]
     IN \E r \in DkStreamWrite(p, threads[t].buf) :
          /\ pal' = r.pal
          /\ IF r.ret # OK
             THEN /\ Finish(t, rec, IF r.ret = "PAL_ERROR_TOOLONG" THEN "EMSGSIZE"
                                    ELSE pal_to_unix_errno(r.ret))
                  /\ UNCHANGED io_log
             ELSE /\ Finish(t, [rec EXCEPT !.out = send_size_out(threads[t].size, r.size),
                                            !.palsize = r.size,
                                            !.wrote = {"size_out"}], OK)
                  /\ io_log' = [io_log EXCEPT ![p].accepted =
                                  @ \o SubSeq(Concat(threads[t].iov), 1, r.size)]
  /\ UNCHANGED <<handles, sock, epoll_interrupts, bound_as, addr_in, addr_out, fdvars>>

\* whether recv goes on past its check of the per-call nonblocking request
recv_nonblock_ok_mut(is_nonblocking, flags) == TRUE
recv_nonblock_ok(is_nonblocking, flags) == ~is_nonblocking \/ O_NONBLOCK \in flags

\* size of the read: iov[0].iov_len, or the sum of all lengths
recv_size(lens) == IF Len(lens) = 1 THEN lens[1] ELSE Sum(lens)

\* if (!pal_handle) return -ENOTCONN;
recv_has_stream(pal_handle) == pal_handle # NULL

recv_flags_locking_mut(h, is_nonblocking) ==
  <<Lock("sock", h), Lock("handle", h), Unlock("handle", h), Unlock("sock", h)>>

\* if (is_nonblocking) { lock(&handle->lock); ...; unlock(&handle->lock); ... }
recv_flags_locking(h, is_nonblocking) ==
  IF is_nonblocking THEN <<Lock("handle", h), Unlock("handle", h)>> ELSE <<>>

recv_entry(t, h, lens, is_nonblocking) ==
  /\ Idle(t) /\ Usable(h)
  /\ LET p == sock[h].pal_handle
         rec == [Call("recv", h) EXCEPT !.pal = p, !.iov = lens, !.nb = is_nonblocking,
                                       !.st = sock[h].state, !.size = Sum(lens)]
     IN IF ~recv_has_stream(p)
        THEN Finish(t, rec, "ENOTCONN")
        ELSE LET checked == [rec EXCEPT !.locks = recv_flags_locking(h, is_nonblocking)]
             IN IF is_nonblocking /\ ~HandleLockFree(h) THEN FALSE
                ELSE IF ~recv_nonblock_ok(is_nonblocking, handles[h].flags)
                THEN Finish(t, checked, "EINVAL")
                ELSE \E malloc_fails \in BOOLEAN :
                       /\ malloc_fails => Len(lens) # 1
                       /\ IF malloc_fails
                          THEN Finish(t, checked, "ENOMEM")
                          ELSE Goto(t, [checked EXCEPT !.pc = "recv_read",
                                                       !.size = recv_size(lens),
                                                       !.backing = (Len(lens) # 1)])
  /\ UNCHANGED <<handles, sock, pal, epoll_interrupts, bound_as, io_log, addr_in, addr_out, fdvars>>

RECURSIVE recv_copy_back(_, _, _, _)
\* the loop copying the backing buffer to the caller's buffers, from buffer i on
\* with `copied` bytes done; a byte no copy wrote stays 0
recv_copy_back_mut(lens, data, i, copied) ==
  [j \in 1..Len(lens) |->
     LET this_size == Min(Len(data), lens[j])
     IN SubSeq(data, 1, this_size) \o Zeros(lens[j] - this_size)]
recv_copy_back(lens, data, i, copied) ==
  IF i > Len(lens) THEN <<>>
  ELSE IF copied >= Len(data) THEN <<Zeros(lens[i])>> \o recv_copy_back(lens, data, i + 1, copied)
  ELSE LET this_size == Min(Len(data) - copied, lens[i])
       IN <<SubSeq(data, copied + 1, copied + this_size) \o Zeros(lens[i] - this_size)>>
          \o recv_copy_back(lens, data, i + 1, copied + this_size)

\* the caller's buffers after a read of `data`
recv_buffers(lens, data, backing) ==
  IF backing THEN recv_copy_back(lens, data, 1, 0)
  ELSE <<data \o Zeros(lens[1] - Len(data))>>

recv_read(t) ==
  /\ threads[t].pc = "recv_read"
  /\ LET p == threads[t].pal
         rec == [threads[t] EXCEPT !.palcall = TRUE]
     IN \E r \in DkStreamRead(p, threads[t].size) :
          /\ pal' = r.pal
          /\ IF r.ret # OK
             THEN /\ Finish(t, rec, pal_to_unix_errno(r.ret))
                  /\ UNCHANGED io_log
             ELSE LET bufs == recv_buffers(threads[t].iov, r.data, threads[t].backing)
                  IN /\ Finish(t, [rec EXCEPT !.out = Len(r.data),
                                               !.palsize = Len(r.data),
                                               !.wrote = {"size_out", "iov"}], OK)
                     /\ io_log' = [io_log EXCEPT ![p].delivered =
                                     @ \o SubSeq(Concat(bufs), 1, Len(r.data))]
  /\ UNCHANGED <<handles, sock, epoll_interrupts, bound_as, addr_in, addr_out, fdvars>>

(***************************************************************************)
(* Spec: the socket state machine under concurrent callers.                *)
(***************************************************************************)
\* the address buffers callers pass: a pathname and an abstract name
MainAddrs == {AddrBuf(AF_UNIX, <<1>>), AddrBuf(AF_UNIX, <<0, 1>>)}

\* socket() is called without SOCK_NONBLOCK here
MainCreateNonblock == {FALSE}

Next ==
  \E t \in Threads :
    \/ \E type \in {SOCK_STREAM, SOCK_DGRAM}, protocol \in {0, 1}, nb \in MainCreateNonblock :
         create(t, type, protocol, nb)
    \/ \E h \in Handles, a \in MainAddrs : bind_entry(t, h, a)
    \/ bind_open(t)
    \/ \E h \in Handles : listen(t, h)
    \/ \E h \in Handles, nb \in BOOLEAN : accept_entry(t, h, nb)
    \/ accept_wait(t)
    \/ accept_copy(t)
    \/ \E h \in Handles, a \in MainAddrs : connect_entry(t, h, a)
    \/ connect_open(t)
    \/ \E h \in Handles : disconnect(t, h)

Spec == Init /\ [][Next]_vars

(***************************************************************************)
(* SpecBind: sockets being bound by concurrent callers, with every kind of *)
(* address buffer: a clean pathname, the same pathname with bytes after    *)
(* its null, another pathname, an abstract name, a buffer too short, a     *)
(* wrong family.                                                           *)
(***************************************************************************)
BindAddrs ==
  {AddrBuf(AF_UNIX, <<1>>), AddrBuf(AF_UNIX, <<1, 0, 2>>), AddrBuf(AF_UNIX, <<2>>),
   AddrBuf(AF_UNIX, <<0, 1>>), AddrBuf(AF_UNIX, <<>>), AddrBuf(AF_INET, <<1>>)}

NextBind ==
  \E t \in Threads :
    \/ create(t, SOCK_STREAM, 0, FALSE)
    \/ \E h \in Handles, a \in BindAddrs : bind_entry(t, h, a)
    \/ bind_open(t)

SpecBind == Init /\ [][NextBind]_vars

(***************************************************************************)
(* SpecAddr: the address functions on every pair of address buffers.       *)
(***************************************************************************)
\* buffers run to one byte past sizeof(struct sockaddr_un)
MaxAddrPath == SunPathSize + 1

UnixAddrs == {AddrBuf(AF_UNIX, p) : p \in SeqsUpTo(Bytes, MaxAddrPath)}
AllAddrs == UnixAddrs \cup {AddrBuf(AF_INET, p) : p \in SeqsUpTo(Bytes, MaxAddrPath)}

InitAddr ==
  /\ InitMain
  /\ addr_in \in AllAddrs \X UnixAddrs
  /\ addr_out = [kind |-> "none"]
  /\ last = IdleThread

\* unaddr_to_sockname on both buffers
apply_unaddr_to_sockname ==
  /\ addr_out' = [kind |-> "sockname",
                  r |-> <<unaddr_to_sockname(addr_in[1]), unaddr_to_sockname(addr_in[2])>>]
  /\ UNCHANGED <<handles, sock, pal, threads, epoll_interrupts, bound_as, io_log,
                 addr_in, last, fdvars>>

\* the address bind and connect record for both buffers, once unaddr_to_sockname
\* has accepted them
apply_record_addr ==
  /\ unaddr_to_sockname(addr_in[1]).ret = OK
  /\ unaddr_to_sockname(addr_in[2]).ret = OK
  /\ addr_out' = [kind |-> "record",
                  r |-> <<RecordAddr(ZeroStorage, addr_in[1]),
                          RecordAddr(ZeroStorage, addr_in[2])>>]
  /\ UNCHANGED <<handles, sock, pal, threads, epoll_interrupts, bound_as, io_log,
                 addr_in, last, fdvars>>

NextAddr == apply_unaddr_to_sockname \/ apply_record_addr

SpecAddr == InitAddr /\ [][NextAddr]_vars

(***************************************************************************)
(* SpecIO: send and recv on the sockets of an established connection.      *)
(* Handle 1 listens on a pathname; handle 2 has connected to it; handle 3  *)
(* is either the child accept returned for that connection, or a new       *)
(* socket while the connection still waits in the backlog.                 *)
(***************************************************************************)
IOAddr == AddrBuf(AF_UNIX, <<1>>)
IOName == unaddr_to_sockname(IOAddr).sock_name

CreatedSock ==
  [FreeSock EXCEPT !.lock_created = TRUE, !.recv_lock_created = TRUE,
     !.ops = sock_unix_ops, !.domain = AF_UNIX, !.type = SOCK_STREAM,
     !.protocol = 0, !.state = SOCK_NEW, !.pal_handle = NULL]

IOListener ==
  [CreatedSock EXCEPT !.pal_handle = 1, !.state = SOCK_LISTENING,
     !.local_addr = RecordAddr(ZeroStorage, IOAddr).addr,
     !.local_addrlen = RecordAddr(ZeroStorage, IOAddr).addrlen]

IOClient ==
  [CreatedSock EXCEPT !.pal_handle = 2, !.state = SOCK_CONNECTED,
     !.remote_addr = RecordAddr(ZeroStorage, IOAddr).addr,
     !.remote_addrlen = RecordAddr(ZeroStorage, IOAddr).addrlen,
     !.local_addr = [ZeroStorage EXCEPT !.family = AF_UNIX],
     !.local_addrlen = SunPathOffset]

IOChild == accept_copy_local(accept_client_sock(IOListener, 3), IOListener)

Flags(nb) == IF nb THEN {O_NONBLOCK} ELSE {}

\* accepted: accept has returned the child; nbc, nba: O_NONBLOCK on the
\* connecting socket and on the child
InitIO(accepted, nbc, nba) ==
  /\ /\ handles = [h \in Handles |->
            IF h = 1 THEN [ref_count |-> 1, flags |-> {}]
            ELSE IF h = 2 THEN [ref_count |-> 1, flags |-> Flags(nbc)]
            ELSE IF h = 3 THEN [ref_count |-> 1, flags |-> IF accepted THEN Flags(nba) ELSE {}]
            ELSE FreeHandle]
       /\ sock = [h \in Handles |->
            IF h = 1 THEN IOListener
            ELSE IF h = 2 THEN IOClient
            ELSE IF h = 3 THEN (IF accepted THEN IOChild ELSE CreatedSock)
            ELSE FreeSock]
       /\ pal = [p \in PalIds |->
            IF p = 1 THEN [FreePalObj EXCEPT !.kind = "srv", !.name = IOName,
                             !.backlog = IF accepted THEN <<>> ELSE <<2>>]
            ELSE IF p = 2 THEN [FreePalObj EXCEPT !.kind = "cli", !.nonblock = nbc,
                                  !.peer = IF accepted THEN 3 ELSE NULL]
            ELSE IF p = 3 /\ accepted
                 THEN [FreePalObj EXCEPT !.kind = "acc", !.nonblock = nba, !.peer = 2]
            ELSE FreePalObj]
  /\ threads = [t \in Threads |-> IdleThread]
  /\ epoll_interrupts = [h \in Handles |-> IF h \in {1, 2} THEN 1 ELSE 0]
  /\ bound_as = [h \in Handles |-> IF h = 1 THEN IOAddr ELSE NoAddr]
  /\ io_log = [p \in PalIds |-> [accepted |-> <<>>, delivered |-> <<>>]]
  /\ addr_in = <<NoAddr, NoAddr>>
  /\ addr_out = [kind |-> "none"]
  /\ last = IdleThread
  /\ InitFd

\* the buffer lists callers pass: data buffers that together hold at most what a
\* stream carries, and receive buffers by their lengths
IOBufs == SeqsUpTo(DataBytes, MaxBufLen)
SendIovs == {iov \in SeqsUpTo(IOBufs, MaxIov) : Len(Concat(iov)) <= MaxSent}
RecvIovs == SeqsUpTo(0..MaxBufLen, MaxIov)

\* thread 1, the connecting side, sends on handle 2; thread 2, the accepting side,
\* receives on handle 3
NextIO ==
  \/ \E iov \in SendIovs : send_entry(1, 2, iov)
  \/ send_write(1)
  \/ \E lens \in RecvIovs : recv_entry(2, 3, lens, FALSE)
  \/ recv_read(2)

InitIOMain == InitIO(TRUE, FALSE, FALSE)

SpecIO == InitIOMain /\ [][NextIO]_vars

(***************************************************************************)
(* SpecIOFlags: send and recv with and without the nonblocking flag, on     *)
(* sockets with and without a platform stream, with short buffer lists.    *)
(* Thread 1 sends on the connected handle 2, and on handle 3 while that    *)
(* has no stream; thread 2 receives on handle 3 and on the listener.       *)
(***************************************************************************)
FlagSendIovs == {<<>>, << <<>> >>, << <<1>> >>, << <<1>>, <<2>> >>}
FlagRecvIovs == {<<>>, <<0>>, <<1>>, <<1, 1>>}

InitIOFlags == \E accepted \in BOOLEAN, nbc \in BOOLEAN, nba \in BOOLEAN :
                 InitIO(accepted, nbc, nba)

NextIOFlags ==
  \/ \E iov \in FlagSendIovs : send_entry(1, 2, iov)
  \/ \E iov \in FlagSendIovs : sock[3].pal_handle = NULL /\ send_entry(1, 3, iov)
  \/ send_write(1)
  \/ \E h \in {1, 3}, lens \in FlagRecvIovs, nb \in BOOLEAN : recv_entry(2, h, lens, nb)
  \/ recv_read(2)

SpecIOFlags == InitIOFlags /\ [][NextIOFlags]_vars

(***************************************************************************)
(* SpecHandle: reference counting and the descriptor table.  Threads get   *)
(* new handles, take and drop references, and install handles into and     *)
(* detach them from the descriptor table.  A reference is only ever made   *)
(* from a structure that holds one: a thread's own reference, or a         *)
(* descriptor of the table.                                                *)
(***************************************************************************)
SockUnchanged == UNCHANGED <<sock, pal, epoll_interrupts, bound_as, io_log, addr_in, addr_out>>

\* get_new_handle() called by thread t: the handle comes with one reference,
\* which the thread holds
get_new_handle_call(t) ==
  /\ Idle(t)
  /\ LET h == get_new_handle
     IN IF h = NoHandle
        THEN /\ Finish(t, Call("get_new_handle", h), "ENOMEM")
             /\ UNCHANGED <<handles, thread_refs>>
        ELSE /\ destroyed[h] < MaxDestroyed
             /\ handles' = [handles EXCEPT ![h] = [ref_count |-> 1, flags |-> {}]]
             /\ thread_refs' = [thread_refs EXCEPT ![t][h] = 1]
             /\ Finish(t, [Call("get_new_handle", h) EXCEPT !.out = h], OK)
  /\ SockUnchanged
  /\ UNCHANGED <<handle_map, destroyed>>

\* get_handle(hdl): one more reference, for a thread that holds one
get_handle(t, h) ==
  /\ Idle(t)
  /\ thread_refs[t][h] > 0
  /\ handles[h].ref_count < MaxRef
  /\ handles' = [handles EXCEPT ![h].ref_count = @ + 1]
  /\ thread_refs' = [thread_refs EXCEPT ![t][h] = @ + 1]
  /\ Finish(t, Call("get_handle", h), OK)
  /\ SockUnchanged
  /\ UNCHANGED <<handle_map, destroyed>>

\* whether put_handle destroys the handle, given the count it has decremented to
put_handle_destroys_mut(ref_count) == ref_count <= 1
put_handle_destroys(ref_count) == ref_count = 0

\* put_handle(hdl): a thread drops one of its references; the drop to zero
\* destroys the handle (closing its platform stream, if it has one)
put_handle_ref(t, h) ==
  /\ Idle(t)
  /\ thread_refs[t][h] > 0
  /\ thread_refs' = [thread_refs EXCEPT ![t][h] = @ - 1]
  /\ LET ref_count == handles[h].ref_count - 1
     IN IF put_handle_destroys(ref_count)
        THEN /\ handles' = [handles EXCEPT ![h] = FreeHandle]
             /\ sock' = [sock EXCEPT ![h] = FreeSock]
             /\ pal' = put_handle(pal, sock[h])
             /\ destroyed' = [destroyed EXCEPT ![h] = @ + 1]
        ELSE /\ handles' = [handles EXCEPT ![h].ref_count = ref_count]
             /\ UNCHANGED <<sock, pal, destroyed>>
  /\ Finish(t, Call("put_handle", h), OK)
  /\ UNCHANGED <<epoll_interrupts, bound_as, io_log, addr_in, addr_out, handle_map>>

FreeFds(map) == {fd \in Fds : map[fd] = NoHandle}

\* the descriptor the lowest-available policy picks in a table with a free one
lowest_free_fd_mut(map) == CHOOSE fd \in FreeFds(map) : \A g \in FreeFds(map) : g <= fd
lowest_free_fd(map) == CHOOSE fd \in FreeFds(map) : \A g \in FreeFds(map) : fd <= g

\* set_new_fd_handle(hdl, ...): install at the lowest available descriptor; the
\* table takes over the reference the caller passes in
set_new_fd_handle(t, h) ==
  /\ Idle(t)
  /\ thread_refs[t][h] > 0
  /\ IF FreeFds(handle_map) = {}
     THEN /\ Finish(t, Call("set_new_fd_handle", h), "EMFILE")
          /\ UNCHANGED <<handle_map, thread_refs>>
     ELSE LET fd == lowest_free_fd(handle_map)
          IN /\ handle_map' = [handle_map EXCEPT ![fd] = h]
             /\ thread_refs' = [thread_refs EXCEPT ![t][h] = @ - 1]
             /\ Finish(t, [Call("set_new_fd_handle", h) EXCEPT !.out = fd], OK)
  /\ SockUnchanged
  /\ UNCHANGED <<handles, destroyed>>

\* detach_fd_handle(fd, ...): remove the entry; its reference passes to the caller
detach_fd_handle(t, fd) ==
  /\ Idle(t)
  /\ LET h == handle_map[fd]
     IN IF h = NoHandle
        THEN /\ Finish(t, [Call("detach_fd_handle", h) EXCEPT !.out = fd], "EBADF")
             /\ UNCHANGED <<handle_map, thread_refs>>
        ELSE /\ handle_map' = [handle_map EXCEPT ![fd] = NoHandle]
             /\ thread_refs' = [thread_refs EXCEPT ![t][h] = @ + 1]
             /\ Finish(t, [Call("detach_fd_handle", h) EXCEPT !.out = fd], OK)
  /\ SockUnchanged
  /\ UNCHANGED <<handles, destroyed>>

\* get_fd_handle(fd, ...): a new reference to the handle of a descriptor
get_fd_handle(t, fd) ==
  /\ Idle(t)
  /\ LET h == handle_map[fd]
     IN IF h = NoHandle
        THEN /\ Finish(t, [Call("get_fd_handle", h) EXCEPT !.out = fd], "EBADF")
             /\ UNCHANGED <<handles, thread_refs>>
        ELSE /\ handles[h].ref_count < MaxRef
             /\ handles' = [handles EXCEPT ![h].ref_count = @ + 1]
             /\ thread_refs' = [thread_refs EXCEPT ![t][h] = @ + 1]
             /\ Finish(t, [Call("get_fd_handle", h) EXCEPT !.out = fd], OK)
  /\ SockUnchanged
  /\ UNCHANGED <<handle_map, destroyed>>

NextHandle ==
  \E t \in Threads :
    \/ get_new_handle_call(t)
    \/ \E h \in Handles : get_handle(t, h)
    \/ \E h \in Handles : put_handle_ref(t, h)
    \/ \E h \in Handles : set_new_fd_handle(t, h)
    \/ \E fd \in Fds : detach_fd_handle(t, fd)
    \/ \E fd \in Fds : get_fd_handle(t, fd)

SpecHandle == Init /\ [][NextHandle]_vars

(***************************************************************************)
(* SpecLock: the socket calls of two threads on shared sockets, with the   *)
(* locks they take.  Besides the backend's calls, a thread may be in the   *)
(* socket layer holding a socket's sock->lock (as it does around bind,     *)
(* listen and connect), so that accept can find the lock taken.  Handle 1  *)
(* is the one that is bound and listens, handle 2 the one that connects    *)
(* and sends, handle 3 the one accept returns.                             *)
(***************************************************************************)
\* the socket layer takes sock->lock of a socket ...
caller_lock(t, h) ==
  /\ Idle(t) /\ Usable(h) /\ sock[h].lock = NoThread
  /\ Goto(t, [CallLocked("caller", h) EXCEPT !.pc = "caller_locked", !.st = sock[h].state])
  /\ sock' = [sock EXCEPT ![h].lock = t]
  /\ UNCHANGED <<handles, pal, epoll_interrupts, bound_as, io_log, addr_in, addr_out, fdvars>>

\* ... and releases it
caller_unlock(t) ==
  /\ threads[t].pc = "caller_locked"
  /\ Finish(t, CallerUnlocks(threads[t]), OK)
  /\ sock' = [sock EXCEPT ![threads[t].hdl].lock = NoThread]
  /\ UNCHANGED <<handles, pal, epoll_interrupts, bound_as, io_log, addr_in, addr_out, fdvars>>

LockAddr == AddrBuf(AF_UNIX, <<1>>)

NextLock ==
  \E t \in Threads :
    \/ create(t, SOCK_STREAM, 0, FALSE)
    \/ bind_entry(t, 1, LockAddr)
    \/ bind_open(t)
    \/ listen(t, 1)
    \/ \E nb \in BOOLEAN : accept_entry(t, 1, nb)
    \/ accept_wait(t)
    \/ accept_copy(t)
    \/ connect_entry(t, 2, LockAddr)
    \/ connect_open(t)
    \/ send_entry(t, 2, << <<1>> >>)
    \/ send_write(t)
    \/ \E h \in Handles, nb \in BOOLEAN : recv_entry(t, h, <<1>>, nb)
    \/ recv_read(t)
    \/ \E h \in Handles : caller_lock(t, h)
    \/ caller_unlock(t)

SpecLock == Init /\ [][NextLock]_vars

(***************************************************************************)
(* SpecNonblock: bind and connect against set_handle_nonblocking on the    *)
(* same handle.  set_handle_nonblocking holds handle->lock while it        *)
(* reconfigures the platform stream, if the socket has one, and then       *)
(* changes the O_NONBLOCK bit of handle->flags.                            *)
(***************************************************************************)
\* DkStreamAttributesSetByHandle(handle, &attr) with attr.nonblocking = on
DkStreamAttributesSetByHandle(p, on) ==
  {PalFail("PAL_ERROR_DENIED"),
   [ret |-> OK, handle |-> p, pal |-> [pal EXCEPT ![p].nonblock = on]]}

\* handle->flags with the O_NONBLOCK bit set or cleared
set_nonblocking_flags_of(flags, on) ==
  IF on THEN flags \cup {O_NONBLOCK} ELSE flags \ {O_NONBLOCK}

\* set_handle_nonblocking(hdl, on): lock(&hdl->lock), then the stream, if open
set_nonblocking_entry(t, h, on) ==
  /\ Idle(t) /\ Usable(h) /\ HandleLockFree(h)
  /\ LET p == sock[h].pal_handle
         rec == [Call("set_nonblocking", h) EXCEPT !.nb = on, !.pal = p,
                                                  !.pc = "set_nonblocking_flags",
                                                  !.locks = <<Lock("handle", h)>>]
     IN IF p = NULL
        THEN Goto(t, rec) /\ UNCHANGED pal
        ELSE \E r \in DkStreamAttributesSetByHandle(p, on) :
               /\ pal' = r.pal
               /\ IF r.ret # OK
                  THEN Finish(t, [rec EXCEPT !.locks = Append(@, Unlock("handle", h))],
                              pal_to_unix_errno(r.ret))
                  ELSE Goto(t, rec)
  /\ UNCHANGED <<handles, sock, epoll_interrupts, bound_as, io_log, addr_in, addr_out, fdvars>>

\* ... then the flag, and unlock(&hdl->lock)
set_nonblocking_flags(t) ==
  /\ threads[t].pc = "set_nonblocking_flags"
  /\ LET h == threads[t].hdl
     IN /\ handles' = [handles EXCEPT ![h].flags =
                         set_nonblocking_flags_of(@, threads[t].nb)]
        /\ Finish(t, [threads[t] EXCEPT !.locks = Append(@, Unlock("handle", h))], OK)
  /\ UNCHANGED <<sock, pal, epoll_interrupts, bound_as, io_log, addr_in, addr_out, fdvars>>

\* handle 1 is the one that is bound, handle 2 the one that connects
NextNonblock ==
  \E t \in Threads :
    \/ \E nb \in BOOLEAN : create(t, SOCK_STREAM, 0, nb)
    \/ bind_entry(t, 1, LockAddr)
    \/ bind_open(t)
    \/ connect_entry(t, 2, LockAddr)
    \/ connect_open(t)
    \/ \E h \in {1, 2}, on \in BOOLEAN : set_nonblocking_entry(t, h, on)
    \/ set_nonblocking_flags(t)

SpecNonblock == Init /\ [][NextNonblock]_vars

(***************************************************************************)
(* Properties.                                                             *)
(***************************************************************************)
Alive(h) == handles[h].ref_count > 0

\* the call that returned in this step (the record `last` changes to)
Returned(op) == last' # last /\ last'.op = op

\* C1: the platform stream handle of a socket changes at most once in the
\* socket's lifetime: a socket that create made starts with none, and once a
\* socket has one (from bind, from connect, or as accept built it) no step
\* replaces or clears it.
C1_PalHandleSetOnce ==
  [][\A h \in Handles :
       /\ (Alive(h) /\ sock[h].pal_handle # NULL)
            => sock'[h].pal_handle = sock[h].pal_handle
       /\ (~Alive(h) /\ handles'[h].ref_count > 0 /\ sock'[h].state = SOCK_NEW)
            => sock'[h].pal_handle = NULL]_vars

\* a listening socket still has the stream bind gave it after accept returned a child
C1_Witness ==
  /\ last.op = "accept" /\ last.ret = OK
  /\ sock[last.hdl].state = SOCK_LISTENING
  /\ sock[last.hdl].pal_handle = last.pal
  /\ last.pal # NULL
  /\ sock[last.out].pal_handle = last.cpal

\* C2: connect on a socket whose state is BOUND, CONNECTED or LISTENING
\* returns EINVAL and has no side effect: no platform call, no change of the
\* socket, and the call never goes on to open a stream.
C2_ConnectNotNew ==
  [][/\ (Returned("connect") /\ last'.st \in {SOCK_BOUND, SOCK_CONNECTED, SOCK_LISTENING})
          => /\ last'.ret = "EINVAL"
             /\ UNCHANGED <<handles, sock, pal, epoll_interrupts, bound_as>>
     /\ \A t \in Threads :
          threads'[t].pc = "connect_open" => threads'[t].st = SOCK_NEW]_vars

C2_Witness ==
  /\ last.op = "connect" /\ last.st = SOCK_LISTENING /\ last.ret = "EINVAL"
  /\ sock[last.hdl].state = SOCK_LISTENING

\* C3: no socket leaves SOCK_CONNECTED or SOCK_LISTENING, and disconnect
\* always returns EINVAL and changes nothing.
C3_NoWayBack ==
  [][/\ \A h \in Handles :
          (Alive(h) /\ sock[h].state \in {SOCK_CONNECTED, SOCK_LISTENING})
             => sock'[h].state = sock[h].state
     /\ Returned("disconnect")
          => /\ last'.ret = "EINVAL"
             /\ UNCHANGED <<handles, sock, pal, epoll_interrupts, bound_as>>]_vars

C3_Witness ==
  /\ last.op = "disconnect" /\ last.st = SOCK_CONNECTED /\ last.ret = "EINVAL"
  /\ sock[last.hdl].state = SOCK_CONNECTED

RECURSIVE UpToNull(_)
\* the bytes of s before its first null byte
UpToNull(s) == IF s = <<>> \/ s[1] = 0 THEN <<>> ELSE <<s[1]>> \o UpToNull(Tail(s))

\* the part of a caller's path bytes that lies within struct sockaddr_un
Capped(a) == SubSeq(a.path, 1, Min(Len(a.path), SunPathSize))

IsPathname(a) == a.family = AF_UNIX /\ a.path # <<>> /\ a.path[1] # 0
IsAbstract(a) == a.family = AF_UNIX /\ a.path # <<>> /\ a.path[1] = 0

\* the logical address of a buffer: a pathname up to its null, or an abstract name
LogicalAddr(a) ==
  IF IsPathname(a) THEN <<"pathname", UpToNull(Capped(a))>> ELSE <<"abstract", Capped(a)>>

\* another socket holds the logical address of buffer a
TakenByOther(h, a) ==
  \E g \in Handles \ {h} :
    Alive(g) /\ bound_as[g] # NoAddr /\ LogicalAddr(bound_as[g]) = LogicalAddr(a)

\* C4: a bind to a logical address that another socket is bound to returns
\* EADDRINUSE, whatever bytes the two buffers hold after the pathname's null;
\* so no bind to a taken address succeeds.
C4_SecondBindInUse ==
  [][\A t \in Threads :
       (threads[t].pc = "bind_open" /\ threads'[t].pc = "idle"
          /\ TakenByOther(threads[t].hdl, threads[t].addr))
         => /\ last'.ret = "EADDRINUSE"
            /\ sock'[threads[t].hdl].pal_handle = NULL
            /\ sock'[threads[t].hdl].state = SOCK_NEW
            /\ UNCHANGED <<pal, bound_as>>]_vars

\* a bind refused although its buffer differs from the buffer of the bound socket
C4_Witness ==
  /\ last.op = "bind" /\ last.ret = "EADDRINUSE"
  /\ \E g \in Handles \ {last.hdl} :
       /\ bound_as[g] # NoAddr
       /\ bound_as[g] # last.addr
       /\ LogicalAddr(bound_as[g]) = LogicalAddr(last.addr)

SockName(i) == addr_out.r[i].sock_name
BothAccepted == addr_out.r[1].ret = OK /\ addr_out.r[2].ret = OK

\* two pathname buffers with the same pathname up to the first null get one name
C5_PathnamePart ==
  (IsPathname(addr_in[1]) /\ IsPathname(addr_in[2])
     /\ UpToNull(addr_in[1].path) = UpToNull(addr_in[2].path))
    => (BothAccepted /\ SockName(1) = SockName(2))

NonblockingRecvOnBlockingHandle ==
  last.op = "recv" /\ last.nb /\ O_NONBLOCK \notin handles[last.hdl].flags

\* C6 as claimed: recv with a nonblocking request on a handle without
\* O_NONBLOCK returns EINVAL and makes no platform read, whether or not the
\* socket has a platform stream.
C6_AsClaimed ==
  NonblockingRecvOnBlockingHandle => (last.ret = "EINVAL" /\ ~last.palcall)

\* C6: recv with a nonblocking request on a handle without O_NONBLOCK makes
\* no platform read; it returns EINVAL when the socket has a platform stream
\* and ENOTCONN when it has none.
C6_NonblockingRecv ==
  /\ NonblockingRecvOnBlockingHandle
       => /\ ~last.palcall
          /\ last.ret = IF last.pal # NULL THEN "EINVAL" ELSE "ENOTCONN"
  /\ \A t \in Threads :
       threads[t].pc = "recv_read"
         => (~threads[t].nb \/ O_NONBLOCK \in handles[threads[t].hdl].flags)

C6_Witness ==
  /\ NonblockingRecvOnBlockingHandle
  /\ last.pal # NULL /\ sock[last.hdl].state = SOCK_CONNECTED
  /\ last.ret = "EINVAL" /\ ~last.palcall

C8_AcceptFailureCloses ==
  /\ (last.op = "accept" /\ last.cpal # NULL /\ last.ret # OK)
       => /\ last.ret = "ENOMEM"
          /\ last.out = NoHandle
          /\ pal[last.cpal].closed = 1
          /\ \A h \in Handles : sock[h].pal_handle # last.cpal
  /\ \A p \in PalIds : pal[p].closed <= 1

C8_Witness ==
  /\ last.op = "accept" /\ last.cpal # NULL /\ last.ret = "ENOMEM"
  /\ pal[last.cpal].closed = 1
  /\ pal[last.cpal].kind = "acc"

\* thread t's call returns 0 in this step from the position pc
Succeeds(t, pc) == threads[t].pc = pc /\ threads'[t].pc = "idle" /\ last'.ret = OK

HookCalledFor(h) == epoll_interrupts' = [epoll_interrupts EXCEPT ![h] = @ + 1]

\* C9 as claimed: each of bind, connect and accept calls the epoll interrupt
\* hook for its socket when it succeeds.
C9_AsClaimed ==
  [][\A t \in Threads :
       (Succeeds(t, "bind_open") \/ Succeeds(t, "connect_open") \/ Succeeds(t, "accept_copy"))
         => HookCalledFor(threads[t].hdl)]_vars

\* C9: bind and connect call the epoll interrupt hook once for their socket
\* when they succeed; accept returns without calling it, and so does every
\* other call and every call that fails.
C9_EpollHook ==
  [][/\ \A t \in Threads :
          (Succeeds(t, "bind_open") \/ Succeeds(t, "connect_open"))
            => HookCalledFor(threads[t].hdl)
     /\ (\A t \in Threads : ~Succeeds(t, "bind_open") /\ ~Succeeds(t, "connect_open"))
          => UNCHANGED epoll_interrupts]_vars

\* accept returned a child and the listener's only hook call is the one bind made
C9_Witness ==
  /\ last.op = "accept" /\ last.ret = OK
  /\ epoll_interrupts[last.hdl] = 1
  /\ epoll_interrupts[last.out] = 0
  /\ \E h \in Handles : sock[h].state = SOCK_CONNECTED /\ h # last.out
                          /\ epoll_interrupts[h] = 1

\* C10: over the connected pair (stream 2 sends to stream 3), the bytes recv
\* has delivered into the caller's buffers, followed by the bytes still in
\* the stream, are exactly the bytes send reported accepted, in order.
C10_RoundTrip ==
  io_log[3].delivered \o pal[2].buf = io_log[2].accepted

\* a recv into two buffers completed the delivery of two different bytes
C10_Witness ==
  /\ last.op = "recv" /\ last.ret = OK /\ last.niov = 2 /\ last.out >= 2
  /\ Len(io_log[3].delivered) >= 2
  /\ io_log[3].delivered[1] # io_log[3].delivered[2]
  /\ io_log[3].delivered = io_log[2].accepted

IsIO(rec) == rec.op \in {"send", "recv"}

\* the number of bytes the platform moved in this step for the call of thread t:
\* what the write added to the stream, or what the read took out of the peer's
BytesMoved(t) ==
  LET p == threads[t].pal
      q == pal[p].peer
  IN IF threads[t].op = "send" THEN pal'[p].nwritten - pal[p].nwritten
     ELSE IF q = NULL THEN 0 ELSE Len(pal[q].buf) - Len(pal'[q].buf)

\* C11: send and recv write the output byte count only when they return 0,
\* and then it is the count the platform call moved, which may be smaller
\* than requested; when the platform call or the allocation fails (or the
\* call is refused before it) they return an error and write neither the
\* byte count nor the caller's buffers.
C11_ByteCount ==
  [][/\ \A t \in Threads :
          (threads[t].pc \in {"send_write", "recv_read"} /\ threads'[t].pc = "idle")
            => /\ last'.palcall
               /\ last'.ret = OK => (last'.out = BytesMoved(t) /\ last'.out <= last'.size)
               /\ last'.ret # OK => BytesMoved(t) = 0
     /\ (IsIO(last') /\ last'.ret = OK) => ("size_out" \in last'.wrote /\ last'.palcall)
     /\ (IsIO(last') /\ last'.ret # OK) => last'.wrote = {}]_vars

\* a send of two bytes that the platform took one byte of
C11_Witness ==
  /\ last.op = "send" /\ last.ret = OK
  /\ last.out > 0 /\ last.out < last.size
  /\ "size_out" \in last.wrote

\* a send or recv of total length zero that is not refused at entry
ZeroLengthIO ==
  /\ IsIO(last) /\ last.size = 0 /\ last.pal # NULL
  /\ ~(last.op = "recv" /\ last.nb /\ O_NONBLOCK \notin handles[last.hdl].flags)

\* C12 as claimed: a send or recv whose buffers have total length zero (an
\* empty list or only zero-length buffers) returns 0 with byte count 0 and
\* makes no platform read or write.
C12_AsClaimed ==
  /\ ZeroLengthIO => (last.ret = OK /\ last.out = 0 /\ ~last.palcall)
  /\ \A t \in Threads :
       threads[t].pc \in {"send_write", "recv_read"} => threads[t].size > 0

\* C13: send and recv on a socket whose pal_handle is NULL return ENOTCONN
\* with nothing allocated, no lock taken, no platform call and nothing
\* written; and a platform read or write is only ever made on the non-null
\* stream the call loaded at entry, which is the socket's stream.
C13_NotConnected ==
  /\ IsIO(last) =>
       /\ last.pal = sock[last.hdl].pal_handle
       /\ last.pal = NULL
            => /\ last.ret = "ENOTCONN"
               /\ ~last.palcall /\ last.locks = <<>> /\ last.wrote = {}
       /\ last.palcall => last.pal # NULL
  /\ \A t \in Threads :
       threads[t].pc \in {"send_write", "recv_read"}
         => /\ threads[t].pal # NULL
            /\ threads[t].pal = sock[threads[t].hdl].pal_handle

\* a send of a byte on a socket that has no stream yet
C13_Witness ==
  /\ last.op = "send" /\ last.size > 0
  /\ sock[last.hdl].pal_handle = NULL /\ sock[last.hdl].state = SOCK_NEW
  /\ last.ret = "ENOTCONN" /\ last.locks = <<>>

\* the references owners hold to handle h: the threads' and the descriptor table's
OwnedRefs(h) ==
  LET RECURSIVE ThreadSum(_)
      ThreadSum(T) == IF T = {} THEN 0
                      ELSE LET t == CHOOSE x \in T : TRUE
                           IN thread_refs[t][h] + ThreadSum(T \ {t})
  IN ThreadSum(Threads) + Cardinality({fd \in Fds : handle_map[fd] = h})

RefCountIsOwners == \A h \in Handles : handles[h].ref_count = OwnedRefs(h)

\* C14: under every interleaving of get_handle and put_handle by threads that
\* hold references, the reference count of a handle is the number of
\* references its owners (threads, descriptors) hold, so an acquire and its
\* matching release leave it where it was and it is positive while any owner
\* holds one; get_handle adds one and put_handle takes one; and a handle is
\* destroyed once, in the very step that takes its count to zero.
C14_RefCount ==
  [][/\ RefCountIsOwners'
     /\ Returned("get_handle")
          => handles'[last'.hdl].ref_count = handles[last'.hdl].ref_count + 1
     /\ Returned("put_handle")
          => handles'[last'.hdl].ref_count = handles[last'.hdl].ref_count - 1
     /\ \A h \in Handles :
          /\ destroyed'[h] = destroyed[h] + 1
               <=> (handles[h].ref_count > 0 /\ handles'[h].ref_count = 0)
          /\ destroyed'[h] \in {destroyed[h], destroyed[h] + 1}]_vars

\* a handle both threads and the table held has been destroyed once, by the last release
C14_Witness ==
  /\ last.op = "put_handle" /\ last.ret = OK
  /\ destroyed[last.hdl] = 1
  /\ handles[last.hdl].ref_count = 0
  /\ \E h \in Handles \ {last.hdl} :
       /\ handles[h].ref_count = 3
       /\ \A t \in Threads : thread_refs[t][h] > 0
       /\ \E fd \in Fds : handle_map[fd] = h

\* C15: set_new_fd_handle with the lowest-available policy installs at the
\* smallest descriptor that maps to no handle: the descriptor it returns was
\* free, every smaller one is in use, no other entry changes; so a detached
\* descriptor is used again when it is the smallest free one.
C15_LowestFd ==
  [][Returned("set_new_fd_handle") =>
       IF last'.ret = OK
       THEN /\ last'.out \in Fds
            /\ handle_map[last'.out] = NoHandle
            /\ \A fd \in Fds : fd < last'.out => handle_map[fd] # NoHandle
            /\ handle_map' = [handle_map EXCEPT ![last'.out] = last'.hdl]
       ELSE /\ \A fd \in Fds : handle_map[fd] # NoHandle
            /\ UNCHANGED handle_map]_vars

\* descriptor 0 was detached and is installed again while descriptor 1 is in use
C15_Witness ==
  /\ last.op = "set_new_fd_handle" /\ last.ret = OK /\ last.out = 0
  /\ handle_map[0] = last.hdl
  /\ handle_map[1] \in Handles \ {last.hdl}
  /\ destroyed[last.hdl] = 0

\* C16: create succeeds only for a stream socket with protocol 0 and then
\* leaves pal_handle NULL; a datagram socket or a nonzero protocol gets
\* EPROTONOSUPPORT and no handle is modified.
C16_CreateStreamOnly ==
  [][Returned("create") /\ last'.ret # "ENOMEM" =>
       IF last'.type = SOCK_STREAM /\ last'.protocol = 0
       THEN /\ last'.ret = OK
            /\ sock'[last'.hdl].pal_handle = NULL
            /\ sock'[last'.hdl].state = SOCK_NEW
            /\ sock[last'.hdl] = FreeSock
       ELSE /\ last'.ret = "EPROTONOSUPPORT"
            /\ UNCHANGED <<handles, sock, pal>>]_vars

\* a datagram socket with protocol 0 was refused while stream sockets exist
C16_Witness ==
  /\ last.op = "create" /\ last.ret = "EPROTONOSUPPORT"
  /\ last.type = SOCK_DGRAM /\ last.protocol = 0
  /\ \E h \in Handles : sock[h].state = SOCK_NEW /\ sock[h].pal_handle = NULL

\* the storage bytes and length of a caller's address after normalization: a
\* pathname ends at its first null, is followed by zeros and counts one null;
\* an abstract name is kept as it is
Normalized(a) ==
  LET name == IF IsPathname(a) THEN UpToNull(Capped(a)) ELSE Capped(a)
  IN [addr |-> [family |-> a.family,
                path |-> [i \in 1..StoragePathSize |->
                            IF i <= Len(name) THEN name[i] ELSE 0]],
      addrlen |-> SunPathOffset + Len(name) + (IF IsPathname(a) THEN 1 ELSE 0)]

\* C17: a connect from SOCK_NEW that succeeds stores the new platform stream,
\* records the caller's address normalized as the remote address and makes
\* the local address AF_UNIX with an empty path and the length of the family
\* field; a connect whose DkStreamOpen fails with PAL_ERROR_CONNFAILED (no
\* listener of that name) returns ENOENT, and a failed open leaves
\* pal_handle, both addresses and both lengths as they were.
C17_Connect ==
  [][\A t \in Threads :
       threads[t].pc = "connect_open" /\ threads'[t].pc = "idle" =>
         LET h == threads[t].hdl
             a == threads[t].addr
         IN /\ last'.op = "connect" /\ last'.hdl = h /\ last'.st = SOCK_NEW
            /\ IF last'.ret = OK
               THEN /\ sock[h].pal_handle = NULL
                    /\ sock'[h].pal_handle \in PalIds
                    /\ pal[sock'[h].pal_handle].kind = "free"
                    /\ pal'[sock'[h].pal_handle].kind = "cli"
                    /\ sock'[h].remote_addr = Normalized(a).addr
                    /\ sock'[h].remote_addrlen = Normalized(a).addrlen
                    /\ sock'[h].local_addr = [ZeroStorage EXCEPT !.family = AF_UNIX]
                    /\ sock'[h].local_addrlen = SunPathOffset
               ELSE /\ Servers(threads[t].name) = {} => last'.ret = "ENOENT"
                    /\ sock'[h].pal_handle = sock[h].pal_handle
                    /\ sock'[h].remote_addr = sock[h].remote_addr
                    /\ sock'[h].remote_addrlen = sock[h].remote_addrlen
                    /\ sock'[h].local_addr = sock[h].local_addr
                    /\ sock'[h].local_addrlen = sock[h].local_addrlen
                    /\ UNCHANGED pal]_vars

\* one socket is connected to an abstract name, and a connect to a pathname
\* nobody listens on has just returned ENOENT
C17_Witness ==
  /\ last.op = "connect" /\ last.ret = "ENOENT" /\ IsPathname(last.addr)
  /\ sock[last.hdl].pal_handle = NULL /\ sock[last.hdl].remote_addrlen = 0
  /\ \E h \in Handles :
       /\ sock[h].state = SOCK_CONNECTED
       /\ sock[h].remote_addr.path[1] = 0
       /\ sock[h].remote_addrlen = SunPathOffset + 2
       /\ sock[h].local_addrlen = SunPathOffset

RECURSIVE HeldAfter(_)
\* the locks a list of lock operations leaves held
HeldAfter(ops) ==
  IF ops = <<>> THEN {}
  ELSE LET op == ops[Len(ops)]
           before == HeldAfter(SubSeq(ops, 1, Len(ops) - 1))
       IN IF op[1] = "lock" THEN before \cup {<<op[2], op[3]>>}
          ELSE before \ {<<op[2], op[3]>>}

RECURSIVE LockOrderKept(_)
\* every acquisition of a list of lock operations keeps the order: the handle
\* lock of h is taken holding nothing or only the sock lock of h, a sock lock
\* is taken holding no handle lock, and only a held lock is released
LockOrderKept(ops) ==
  \/ ops = <<>>
  \/ LET op == ops[Len(ops)]
         before == SubSeq(ops, 1, Len(ops) - 1)
         held == HeldAfter(before)
     IN /\ LockOrderKept(before)
        /\ <<op[2], op[3]>> \in held <=> op[1] = "unlock"
        /\ op = Lock("handle", op[3]) => held \subseteq {<<"sock", op[3]>>}
        /\ op = Lock("sock", op[3]) => \A l \in held : l[1] # "handle"

\* thread t is at the lock(&handle->info.sock.lock) of accept and the lock is taken
WaitsForSockLock(t) ==
  threads[t].pc = "accept_copy" /\ sock[threads[t].hdl].lock # NoThread

\* C20: in every interleaving of create, bind, listen, connect, accept, send
\* and recv by two threads on shared sockets, with bind and connect entered
\* under sock->lock, every thread's lock operations keep one order (handle
\* lock only while holding nothing or that socket's sock lock, no sock lock
\* while holding a handle lock), every call that has returned has released
\* all it took, and there is no deadlock: a thread that holds a lock waits
\* for none and has a step it can take, so a thread waiting for a sock lock
\* waits for a thread that can go on and release it.
C20_LockDiscipline ==
  /\ \A t \in Threads :
       /\ LockOrderKept(threads[t].locks)
       /\ Idle(t) => HeldAfter(threads[t].locks) = {}
       /\ \A h \in Handles :
            sock[h].lock = t <=> <<"sock", h>> \in HeldAfter(threads[t].locks)
       /\ \A l \in HeldAfter(threads[t].locks) : l[1] = "sock"
       /\ HeldAfter(threads[t].locks) # {} =>
            /\ ~WaitsForSockLock(t)
            /\ ENABLED (bind_open(t) \/ connect_open(t) \/ caller_unlock(t))
       /\ WaitsForSockLock(t) =>
            /\ sock[threads[t].hdl].lock \in Threads \ {t}
            /\ ~WaitsForSockLock(sock[threads[t].hdl].lock)
  /\ \A h \in Handles : sock[h].lock \in {NoThread} \cup Threads
  /\ LockOrderKept(last.locks)
  /\ HeldAfter(last.locks) = {}

\* accept waits for the listener's sock->lock, which the other thread holds,
\* after a connect that took the handle lock under sock->lock has returned
C20_Witness ==
  /\ \E t \in Threads : WaitsForSockLock(t) /\ threads[t].hdl = 1
  /\ last.op = "connect" /\ last.ret = OK
  /\ last.locks = <<Lock("sock", 2), Lock("handle", 2), Unlock("handle", 2),
                    Unlock("sock", 2)>>

\* a call record of send or recv that takes no sock->lock and went on exactly
\* with a stream that was stored
NoSockLockIO(rec) ==
  rec.op \in {"send", "recv"} =>
    /\ \A i \in 1..Len(rec.locks) : rec.locks[i][2] # "sock"
    /\ rec.pal \in {NULL} \cup PalIds
    /\ rec.pal = NULL <=> (rec.pc = "done" /\ rec.ret = "ENOTCONN")
    /\ rec.pal # NULL => pal[rec.pal].kind # "free"

\* C21: send and recv never take sock->lock.  Whoever holds a socket's
\* sock->lock (a thread inside bind or connect, or its caller), another
\* thread's send or recv on that socket can start and return, and it has
\* loaded either NULL, and returns ENOTCONN, or the stream of the socket as
\* an open platform stream.
C21_NoSockLock ==
  /\ NoSockLockIO(last)
  /\ \A t \in Threads :
       /\ NoSockLockIO(threads[t])
       /\ threads[t].pc \in {"send_write", "recv_read"} =>
            /\ threads[t].pal = sock[threads[t].hdl].pal_handle
            /\ ENABLED (send_write(t) \/ recv_read(t))
                 \/ pal[threads[t].pal].kind \in {"cli", "acc"}
       /\ Idle(t) =>
            \A h \in Handles :
              Usable(h) /\ sock[h].lock \in Threads \ {t} =>
                /\ ENABLED send_entry(t, h, << <<1>> >>)
                /\ ENABLED recv_entry(t, h, <<1>>, FALSE)

\* a send on socket 2 has returned ENOTCONN while the other thread is inside
\* connect on socket 2, holding its sock->lock, and has not stored the stream
C21_Witness ==
  /\ last.op = "send" /\ last.hdl = 2 /\ last.ret = "ENOTCONN"
  /\ \E u \in Threads :
       /\ threads[u].pc = "connect_open" /\ threads[u].hdl = 2
       /\ sock[2].lock = u
  /\ sock[2].pal_handle = NULL

\* C22: a socket in state SOCK_BOUND, SOCK_LISTENING or SOCK_CONNECTED has a
\* pal_handle that is not NULL and names an open platform stream; so the
\* pal_handle accept loaded from a listening socket is not NULL (its
\* assert(pal_handle) holds), however accept interleaves with bind, listen
\* and connect on the same socket.
C22_StateHasStream ==
  /\ \A h \in Handles :
       sock[h].state \in {SOCK_BOUND, SOCK_LISTENING, SOCK_CONNECTED} =>
         /\ sock[h].pal_handle \in PalIds
         /\ pal[sock[h].pal_handle].kind # "free"
  /\ \A t \in Threads :
       threads[t].pc \in {"accept_wait", "accept_copy"} =>
         /\ threads[t].pal # NULL
         /\ threads[t].pal = sock[threads[t].hdl].pal_handle
         /\ sock[threads[t].hdl].state = SOCK_LISTENING

\* one thread is inside accept on a listening socket on which the other
\* thread's connect has just been refused
C22_Witness ==
  /\ last.op = "connect" /\ last.ret = "EINVAL" /\ last.st = SOCK_LISTENING
  /\ \E t \in Threads :
       /\ threads[t].pc = "accept_wait" /\ threads[t].hdl = last.hdl
       /\ threads[t].pal = sock[last.hdl].pal_handle
  /\ sock[last.hdl].state = SOCK_LISTENING

\* C23 as claimed: once bind or connect has stored the stream it opened and
\* no set_handle_nonblocking is in progress on the handle, the stream is
\* nonblocking exactly when handle->flags contain O_NONBLOCK.
C23_AsClaimed ==
  \A h \in Handles :
    /\ sock[h].state \in {SOCK_BOUND, SOCK_CONNECTED}
    /\ sock[h].pal_handle # NULL
    /\ HandleLockFree(h)
    => pal[sock[h].pal_handle].nonblock = (O_NONBLOCK \in handles[h].flags)

=============================================================================
